---- MODULE Spec2Model ----
(***************************************************************************)
(* Draft-variable console API of api/controllers/console/app/              *)
(* workflow_draft_variable.py: the eleven Resource handlers, the guard      *)
(* chain in front of them, and the draft-variable store they act on        *)
(* through WorkflowDraftVariableService.                                    *)
(***************************************************************************)
EXTENDS Integers, Sequences, FiniteSets, TLC

(* ------------------------------------------------------------------ *)
(* Bounds and program constants                                        *)
(* ------------------------------------------------------------------ *)

\* Bound: how many draft-variable rows the draft runs create (ids 1..MaxId).
MaxId == 1

\* inputs.int_range(1, 100_000) of "page", and its default.
PageMin == 1
PageMax == 100000
PageDefault == 1
\* inputs.int_range(1, 100) of "limit", and its default.
LimitMin == 1
LimitMax == 100
LimitDefault == 20

CONVERSATION_VARIABLE_NODE_ID == "conversation"
SYSTEM_VARIABLE_NODE_ID == "sys"

\* a1: workflow app, a2: advanced-chat app, a3: an app of another mode.
Apps == {"a1", "a2", "a3"}
NodeIds == {CONVERSATION_VARIABLE_NODE_ID, SYSTEM_VARIABLE_NODE_ID, "n1"}
Names == {"x", "y"}
\* The value a draft run observes (not the declared default).
ObservedValues == {1}
\* Draft runs create the rows 1..MaxId; the handlers (the prefill of the
\* conversation-variables GET) may use one id more.
MaxRowId == MaxId + 1
Ids == 1..MaxRowId
\* The (app, node, name) a draft run writes: every scope and name on a1, a
\* node and a conversation variable on a2.
DraftKeys ==
    ({"a1"} \X NodeIds \X Names)
        \cup {<<"a2", "n1", "x">>, <<"a2", CONVERSATION_VARIABLE_NODE_ID, "x">>}

\* The default every declared conversation variable is declared with.
DeclaredDefault == 0

\* The caller and deployment of one request: "ok" passes every guard, each
\* other value fails exactly the guard it names.
Ctxs == {"ok", "not_setup", "not_logged_in", "not_initialized", "not_editor"}

\* JSON payloads of PATCH: the name is absent/null (<<>>) or a string; the
\* value is absent, null, a number literal or a payload build_segment rejects.
NameArgs == {<<>>, <<"x">>, <<"y">>}
RawValues == {"absent", "null", "1", "bad"}
\* The (name, value) bodies of PATCH: every value without a name, and each
\* name without a value and with one.
PatchArgs == ({<<>>} \X RawValues) \cup ((NameArgs \ {<<>>}) \X {"absent", "1"})
\* (page, limit) query strings of the paginated listing; <<>> is "not given".
PageArgs ==
    { [page |-> <<>>, limit |-> <<>>], [page |-> <<2>>, limit |-> <<1>>],
      [page |-> <<0>>, limit |-> <<>>], [page |-> <<1>>, limit |-> <<101>>] }

VARIABLES
    store,      \* the committed draft-variable rows (a set of records)
    nextId,     \* the next fresh row id
    workflows,  \* app -> its draft workflow (<<>> when it has none)
    last,       \* the last request served, with its response and its trace
    inflight    \* client -> its conversation-variables GET in progress

vars == <<store, nextId, workflows, last, inflight>>

Clients == {"c1", "c2"}

(* ------------------------------------------------------------------ *)
(* Rows, workflows, views                                              *)
(* ------------------------------------------------------------------ *)

Row(id, app, node, name, value, edited) ==
    [id |-> id, app_id |-> app, node_id |-> node, name |-> name,
     value |-> value, edited |-> edited]

AppMode(app) ==
    CASE app = "a1" -> "workflow"
      [] app = "a2" -> "advanced-chat"
      [] OTHER -> "chat"

\* A draft workflow: its declared conversation variables (each with the
\* default DeclaredDefault) and its declared environment variables.
Workflow(conv, env) == [conversation_variables |-> conv, environment_variables |-> env]

WorkflowConfigs ==
    { [a \in Apps |-> CASE a = "a1" -> <<Workflow({"x"}, <<"e1">>)>>
                        [] a = "a2" -> <<>>
                        [] OTHER -> <<>>],
      [a \in Apps |-> CASE a = "a1" -> <<Workflow({"x", "y"}, <<>>)>>
                        [] a = "a2" -> <<Workflow({}, <<"e1", "e2">>)>>
                        [] OTHER -> <<>>] }

get_draft_workflow(app) == workflows[app]
is_workflow_exist(app) == workflows[app] # <<>>

RECURSIVE SortById(_)
SortById(S) ==
    IF S = {} THEN <<>>
    ELSE LET r == CHOOSE x \in S : \A y \in S : x.id <= y.id
         IN <<r>> \o SortById(S \ {r})

MapSeq(F(_), s) == [i \in 1..Len(s) |-> F(s[i])]

get_variable_type(r) ==
    CASE r.node_id = CONVERSATION_VARIABLE_NODE_ID -> "conversation"
      [] r.node_id = SYSTEM_VARIABLE_NODE_ID -> "sys"
      [] OTHER -> "node"

get_selector(r) == <<r.node_id, r.name>>

\* _WORKFLOW_DRAFT_VARIABLE_WITHOUT_VALUE_FIELDS
WithoutValueFields(r) ==
    [id |-> r.id, type |-> get_variable_type(r), name |-> r.name,
     description |-> "", selector |-> get_selector(r), value_type |-> "number",
     edited |-> r.edited, visible |-> TRUE]

\* _WORKFLOW_DRAFT_VARIABLE_FIELDS
VariableFields(r) ==
    [id |-> r.id, type |-> get_variable_type(r), name |-> r.name,
     description |-> "", selector |-> get_selector(r), value_type |-> "number",
     edited |-> r.edited, visible |-> TRUE, value |-> r.value]

(* ------------------------------------------------------------------ *)
(* WorkflowDraftVariableService and the value codec                    *)
(* ------------------------------------------------------------------ *)

SameKey(r, app, node, name) == r.app_id = app /\ r.node_id = node /\ r.name = name

RowsOfKey(st, app, node, name) == {r \in st : SameKey(r, app, node, name)}

\* build_segment as the PATCH parser applies it: absent and null give None
\* (<<>>), a number literal gives its segment, any other payload is rejected.
build_segment(raw) ==
    CASE raw = "1" -> [ok |-> TRUE, value |-> <<1>>]
      [] raw \in {"absent", "null"} -> [ok |-> TRUE, value |-> <<>>]
      [] OTHER -> [ok |-> FALSE, value |-> <<>>]

list_variables_without_values(st, app, page, limit) ==
    LET all == SortById({r \in st : r.app_id = app})
        lo == (page - 1) * limit + 1
        hi == IF page * limit < Len(all) THEN page * limit ELSE Len(all)
    IN [variables |-> IF lo > hi THEN <<>> ELSE SubSeq(all, lo, hi),
        total |-> Len(all)]

list_node_variables(st, app, node) ==
    SortById({r \in st : r.app_id = app /\ r.node_id = node})

list_conversation_variables(st, app) ==
    list_node_variables(st, app, CONVERSATION_VARIABLE_NODE_ID)

list_system_variables(st, app) ==
    list_node_variables(st, app, SYSTEM_VARIABLE_NODE_ID)

get_variable(st, vid) ==
    LET S == {r \in st : r.id = vid}
    IN IF S = {} THEN <<>> ELSE <<CHOOSE r \in S : TRUE>>

\* Persists the change and marks the row edited; the store refuses a rename
\* onto a name another row of the same (app, node) already has.
update_variable(st, row, name, value) ==
    LET new == [row EXCEPT !.name = IF name = <<>> THEN @ ELSE name[1],
                           !.value = IF value = <<>> THEN @ ELSE value[1],
                           !.edited = TRUE]
        clash == \E r \in st \ {row} : SameKey(r, new.app_id, new.node_id, new.name)
    IN [ok |-> ~clash,
        store |-> IF clash THEN st ELSE (st \ {row}) \cup {new},
        variable |-> new]

delete_variable(st, row) == st \ {row}

delete_node_variables(st, app, node) ==
    {r \in st : ~(r.app_id = app /\ r.node_id = node)}

delete_workflow_variables(st, app) == {r \in st : r.app_id # app}

\* Restores the declared default. The row is removed (None is returned) when
\* the workflow no longer declares the name, and may be removed when the
\* default alone suffices (choice = "remove"); otherwise it holds the default
\* with edited cleared.
reset_conversation_variable(st, wf, row, choice) ==
    IF row.name \notin wf.conversation_variables \/ choice = "remove"
    THEN [store |-> st \ {row}, resetted |-> <<>>]
    ELSE LET new == [row EXCEPT !.value = DeclaredDefault, !.edited = FALSE]
         IN [store |-> (st \ {row}) \cup {new}, resetted |-> <<new>>]

\* The existence check of the prefill: declared names with no row yet.
MissingDefaults(st, wf, app) ==
    {n \in wf.conversation_variables :
        ~\E r \in st : SameKey(r, app, CONVERSATION_VARIABLE_NODE_ID, n)}

RECURSIVE InsertDefaults(_, _, _, _)
InsertDefaults(st, nid, app, names) ==
    IF names = {} THEN [store |-> st, nextId |-> nid]
    ELSE LET n == CHOOSE x \in names : TRUE
         IN InsertDefaults(
                st \cup {Row(nid, app, CONVERSATION_VARIABLE_NODE_ID, n,
                             DeclaredDefault, FALSE)},
                nid + 1, app, names \ {n})

\* The conflict-tolerant insert: a name that got a row in the meantime is
\* skipped.
InsertIgnoreConflicts(st, nid, app, names) ==
    InsertDefaults(st, nid, app,
        {n \in names : ~\E r \in st : SameKey(r, app, CONVERSATION_VARIABLE_NODE_ID, n)})

prefill_conversation_variable_default_values(st, nid, wf, app) ==
    InsertIgnoreConflicts(st, nid, app, MissingDefaults(st, wf, app))

(* ------------------------------------------------------------------ *)
(* The trace of one request                                            *)
(* ------------------------------------------------------------------ *)

\* e: guard | parse | open | close | call | wfcall | commit; s: the session
\* ("scoped" is db.session(), "local" a `with Session(...)` block); m: the
\* guard, or the service method called.
Ev(e, s, m) == [e |-> e, s |-> s, m |-> m]
EvGuard(m) == Ev("guard", "", m)
EvParse == Ev("parse", "", "parse_args")
EvOpen(s) == Ev("open", s, "")
EvClose(s) == Ev("close", s, "")
EvCall(s, m) == Ev("call", s, m)
EvWorkflow(m) == Ev("wfcall", "", m)
EvCommit == Ev("commit", "scoped", "")

Commits(events) == Cardinality({i \in 1..Len(events) : events[i].e = "commit"})

NoMsg == [text |-> "", id |-> 0, app |-> ""]
VariableNotFoundMsg(vid) == [text |-> "variable not found, id=", id |-> vid, app |-> ""]

\* What a handler body hands back: the rows its session holds (pending), the
\* response and the trace.
Ret(pending, nid, status, kind, body, events) ==
    [pending |-> pending, nextId |-> nid, status |-> status, kind |-> kind,
     body |-> body, total |-> <<>>, msg |-> NoMsg, events |-> events]

Raise(st, nid, status, msg, events) ==
    [pending |-> st, nextId |-> nid, status |-> status, kind |-> "error",
     body |-> <<>>, total |-> <<>>, msg |-> msg, events |-> events]

(* ------------------------------------------------------------------ *)
(* The handlers                                                        *)
(* ------------------------------------------------------------------ *)

\* _create_pagination_parser: defaults, and the int_range checks.
ParsePagination(pa) ==
    LET page == IF pa.page = <<>> THEN PageDefault ELSE pa.page[1]
        limit == IF pa.limit = <<>> THEN LimitDefault ELSE pa.limit[1]
    IN [ok |-> page >= PageMin /\ page <= PageMax /\ limit >= LimitMin /\ limit <= LimitMax,
        page |-> page, limit |-> limit]

WorkflowVariableCollectionApi_get(st, nid, app, pa) ==
    LET args == ParsePagination(pa) IN
    IF ~args.ok THEN Raise(st, nid, "BadRequest", NoMsg, <<EvParse>>)
    ELSE IF ~is_workflow_exist(app)
    THEN Raise(st, nid, "DraftWorkflowNotExist", NoMsg,
               <<EvParse, EvWorkflow("is_workflow_exist")>>)
    ELSE LET vars_ == list_variables_without_values(st, app, args.page, args.limit)
         IN [Ret(st, nid, "200", "list_without_value",
                 MapSeq(WithoutValueFields, vars_.variables),
                 <<EvParse, EvWorkflow("is_workflow_exist"),
                   EvOpen("local"), EvClose("local"),
                   EvCall("local", "list_variables_without_values")>>)
             EXCEPT !.total = <<vars_.total>>]

WorkflowVariableCollectionApi_delete(st, nid, app) ==
    Ret(delete_workflow_variables(st, app), nid, "204", "empty", <<>>,
        <<EvOpen("scoped"), EvCall("scoped", "delete_workflow_variables"), EvCommit>>)

\* A validate_node_id that forgets the system sentinel.
validate_node_id_ConversationOnly(node_id) ==
    node_id # CONVERSATION_VARIABLE_NODE_ID

\* TRUE when validate_node_id returns, FALSE when it raises.
validate_node_id(node_id) ==
    node_id \notin {CONVERSATION_VARIABLE_NODE_ID, SYSTEM_VARIABLE_NODE_ID}

InvalidNodeMsg(node_id) ==
    [text |-> "invalid node_id, please use correspond api for conversation and system variables, node_id=",
     id |-> 0, app |-> node_id]

NodeVariableCollectionApi_get(st, nid, app, node_id) ==
    IF ~validate_node_id(node_id)
    THEN Raise(st, nid, "InvalidArgumentError", InvalidNodeMsg(node_id), <<>>)
    ELSE Ret(st, nid, "200", "list", MapSeq(VariableFields, list_node_variables(st, app, node_id)),
             <<EvOpen("local"), EvCall("local", "list_node_variables"), EvClose("local")>>)

NodeVariableCollectionApi_delete(st, nid, app, node_id) ==
    IF ~validate_node_id(node_id)
    THEN Raise(st, nid, "InvalidArgumentError", InvalidNodeMsg(node_id), <<>>)
    ELSE Ret(delete_node_variables(st, app, node_id), nid, "204", "empty", <<>>,
             <<EvOpen("scoped"), EvCall("scoped", "delete_node_variables"), EvCommit>>)

\* The lookup without the `variable.app_id != app_model.id` check.
OwnVariable_NoAppCheck(st, app, vid) == get_variable(st, vid)

\* The lookup shared by the by-id handlers: the row, or nothing when the id
\* has no row or the row is another app's.
OwnVariable(st, app, vid) ==
    LET variable == get_variable(st, vid)
    IN IF variable = <<>> THEN <<>>
       ELSE IF variable[1].app_id # app THEN <<>>
       ELSE variable

VariableApi_get(st, nid, app, vid) ==
    LET ev == <<EvOpen("scoped"), EvCall("scoped", "get_variable")>>
        variable == OwnVariable(st, app, vid)
    IN IF variable = <<>>
       THEN Raise(st, nid, "NotFoundError", VariableNotFoundMsg(vid), ev)
       ELSE Ret(st, nid, "200", "variable", <<VariableFields(variable[1])>>, ev)

\* A patch with no early return.
PatchIsNoop_Never(new_name, new_value) == FALSE

\* TRUE when patch returns the variable without calling update_variable.
PatchIsNoop(new_name, new_value) == new_name = <<>> /\ new_value = <<>>

VariableApi_patch(st, nid, app, vid, name, raw) ==
    LET seg == build_segment(raw)
        ev0 == <<EvOpen("scoped"), EvParse>>
        ev1 == ev0 \o <<EvCall("scoped", "get_variable")>>
        variable == OwnVariable(st, app, vid)
    IN IF ~seg.ok THEN Raise(st, nid, "BadRequest", NoMsg, ev0)
       ELSE IF variable = <<>>
       THEN Raise(st, nid, "NotFoundError", VariableNotFoundMsg(vid), ev1)
       ELSE IF PatchIsNoop(name, seg.value)
       THEN Ret(st, nid, "200", "variable", <<VariableFields(variable[1])>>, ev1)
       ELSE LET upd == update_variable(st, variable[1], name, seg.value)
                ev2 == ev1 \o <<EvCall("scoped", "update_variable")>>
            IN IF ~upd.ok THEN Raise(st, nid, "IntegrityError", NoMsg, ev2)
               ELSE Ret(upd.store, nid, "200", "variable",
                        <<VariableFields(upd.variable)>>, ev2 \o <<EvCommit>>)

\* A delete that returns 204 without db.session.commit().
DeleteByIdTrace_NoCommit == <<EvCall("scoped", "delete_variable")>>

\* The tail of VariableApi.delete: delete_variable, then the commit.
DeleteByIdTrace == <<EvCall("scoped", "delete_variable"), EvCommit>>

VariableApi_delete(st, nid, app, vid) ==
    LET ev == <<EvOpen("scoped"), EvCall("scoped", "get_variable")>>
        variable == OwnVariable(st, app, vid)
    IN IF variable = <<>>
       THEN Raise(st, nid, "NotFoundError", VariableNotFoundMsg(vid), ev)
       ELSE Ret(delete_variable(st, variable[1]), nid, "204", "empty", <<>>,
                ev \o DeleteByIdTrace)

\* A put that tests `resetted is not None` the wrong way round.
ResetResponse_Swapped(resetted, variable) ==
    IF resetted # <<>> THEN [status |-> "204", kind |-> "empty", body |-> <<>>]
    ELSE [status |-> "200", kind |-> "variable", body |-> <<VariableFields(variable)>>]

\* A reset that accepts every scope.
IsConversationVariable_Unchecked(variable) == TRUE

\* The scope check of put: variable.node_id is the conversation sentinel.
IsConversationVariable(variable) == variable.node_id = CONVERSATION_VARIABLE_NODE_ID

\* What put returns for the result of reset_conversation_variable.
ResetResponse(resetted, variable) ==
    IF resetted = <<>> THEN [status |-> "204", kind |-> "empty", body |-> <<>>]
    ELSE [status |-> "200", kind |-> "variable", body |-> <<VariableFields(variable)>>]

VariableResetApi_put(st, nid, app, vid, choice) ==
    LET ev0 == <<EvOpen("scoped"), EvWorkflow("get_draft_workflow")>>
        ev1 == ev0 \o <<EvCall("scoped", "get_variable")>>
        draft_workflow == get_draft_workflow(app)
        variable == OwnVariable(st, app, vid)
    IN IF draft_workflow = <<>>
       THEN Raise(st, nid, "NotFoundError",
                  [text |-> "Draft workflow not found, app_id=", id |-> 0, app |-> app], ev0)
       ELSE IF variable = <<>>
       THEN Raise(st, nid, "NotFoundError", VariableNotFoundMsg(vid), ev1)
       ELSE IF ~IsConversationVariable(variable[1])
       THEN Raise(st, nid, "InvalidArgumentError",
                  [text |-> "variable is not a conversation variable, id=",
                   id |-> vid, app |-> variable[1].node_id], ev1)
       ELSE LET res == reset_conversation_variable(st, draft_workflow[1], variable[1], choice)
                \* the handler returns the object the service reset in place
                after == IF res.resetted = <<>> THEN variable[1] ELSE res.resetted[1]
                resp == ResetResponse(res.resetted, after)
            IN Ret(res.store, nid, resp.status, resp.kind, resp.body,
                   ev1 \o <<EvCall("scoped", "reset_conversation_variable"), EvCommit>>)

\* _get_variable_list: the trace and the rows of one scope.
GetVariableList(st, app, node_id) ==
    LET method == CASE node_id = CONVERSATION_VARIABLE_NODE_ID -> "list_conversation_variables"
                    [] node_id = SYSTEM_VARIABLE_NODE_ID -> "list_system_variables"
                    [] OTHER -> "list_node_variables"
        rows == CASE node_id = CONVERSATION_VARIABLE_NODE_ID -> list_conversation_variables(st, app)
                  [] node_id = SYSTEM_VARIABLE_NODE_ID -> list_system_variables(st, app)
                  [] OTHER -> list_node_variables(st, app, node_id)
    IN [events |-> <<EvOpen("local"), EvCall("local", method), EvClose("local")>>,
        body |-> MapSeq(VariableFields, rows)]

\* A handler that prefills and never commits.
PrefillTrace_NoCommit ==
    <<EvOpen("scoped"), EvCall("scoped", "prefill_conversation_variable_default_values")>>

\* The prefill of ConversationVariableCollectionApi.get, then its commit.
PrefillTrace ==
    <<EvOpen("scoped"), EvCall("scoped", "prefill_conversation_variable_default_values"),
      EvCommit>>

ConversationVariableCollectionApi_get(st, nid, app) ==
    LET draft_workflow == get_draft_workflow(app) IN
    IF draft_workflow = <<>>
    THEN Raise(st, nid, "NotFoundError",
               [text |-> "draft workflow not found, id=", id |-> 0, app |-> app],
               <<EvWorkflow("get_draft_workflow")>>)
    ELSE LET pre == prefill_conversation_variable_default_values(st, nid, draft_workflow[1], app)
             \* _get_variable_list reads, in a session of its own, what is committed
             seen == IF Commits(PrefillTrace) > 0 THEN pre.store ELSE st
             lst == GetVariableList(seen, app, CONVERSATION_VARIABLE_NODE_ID)
         IN Ret(pre.store, pre.nextId, "200", "list", lst.body,
                <<EvWorkflow("get_draft_workflow")>> \o PrefillTrace \o lst.events)

SystemVariableCollectionApi_get(st, nid, app) ==
    LET lst == GetVariableList(st, app, SYSTEM_VARIABLE_NODE_ID)
    IN Ret(st, nid, "200", "list", lst.body, lst.events)

EnvVariableFields(name) ==
    [id |-> name, type |-> "env", name |-> name, description |-> "",
     selector |-> <<"env", name>>, value_type |-> "string", value |-> name,
     edited |-> FALSE, visible |-> TRUE, editable |-> TRUE]

EnvironmentVariableCollectionApi_get(st, nid, app) ==
    LET workflow == get_draft_workflow(app) IN
    IF workflow = <<>>
    THEN Raise(st, nid, "DraftWorkflowNotExist", NoMsg, <<EvWorkflow("get_draft_workflow")>>)
    ELSE Ret(st, nid, "200", "list",
             MapSeq(EnvVariableFields, workflow[1].environment_variables),
             <<EvWorkflow("get_draft_workflow")>>)

(* ------------------------------------------------------------------ *)
(* The guard chain and the request cycle                               *)
(* ------------------------------------------------------------------ *)

\* The decorators of _api_prerequisite, outermost first, then the editor
\* check of its wrapper.
GuardOrder ==
    <<"setup_required", "login_required", "account_initialization_required",
      "get_app_model", "is_editor">>

\* The imported decorators: each lets the request through or refuses it.
DecoratorPasses(g, ctx, app) ==
    CASE g = "setup_required" -> ctx # "not_setup"
      [] g = "login_required" -> ctx # "not_logged_in"
      [] g = "account_initialization_required" -> ctx # "not_initialized"
      [] OTHER -> AppMode(app) \in {"advanced-chat", "workflow"}

\* A wrapper without `if not current_user.is_editor: raise Forbidden()`.
is_editor_Unchecked(ctx) == TRUE

\* current_user.is_editor
is_editor(ctx) == ctx # "not_editor"

GuardPasses(g, ctx, app) ==
    IF g = "is_editor" THEN is_editor(ctx) ELSE DecoratorPasses(g, ctx, app)

RECURSIVE RunGuards(_, _, _)
RunGuards(i, ctx, app) ==
    IF i > Len(GuardOrder) THEN [pass |-> TRUE, events |-> <<>>]
    ELSE IF ~GuardPasses(GuardOrder[i], ctx, app)
    THEN [pass |-> FALSE, events |-> <<EvGuard(GuardOrder[i])>>]
    ELSE LET rest == RunGuards(i + 1, ctx, app)
         IN [pass |-> rest.pass, events |-> <<EvGuard(GuardOrder[i])>> \o rest.events]

api_prerequisite(ctx, app) == RunGuards(1, ctx, app)

Endpoints ==
    {"WorkflowVariableCollectionApi.get", "WorkflowVariableCollectionApi.delete",
     "NodeVariableCollectionApi.get", "NodeVariableCollectionApi.delete",
     "VariableApi.get", "VariableApi.patch", "VariableApi.delete",
     "VariableResetApi.put", "ConversationVariableCollectionApi.get",
     "SystemVariableCollectionApi.get", "EnvironmentVariableCollectionApi.get"}

Req(op, app, ctx) ==
    [op |-> op, app |-> app, ctx |-> ctx, node |-> "", vid |-> 0, name |-> <<>>,
     value |-> "absent", page |-> <<>>, limit |-> <<>>]

\* The handler body of a request (choice: what the store does on a reset).
Dispatch(st, nid, req, choice) ==
    CASE req.op = "WorkflowVariableCollectionApi.get" ->
            WorkflowVariableCollectionApi_get(st, nid, req.app, [page |-> req.page, limit |-> req.limit])
      [] req.op = "WorkflowVariableCollectionApi.delete" ->
            WorkflowVariableCollectionApi_delete(st, nid, req.app)
      [] req.op = "NodeVariableCollectionApi.get" ->
            NodeVariableCollectionApi_get(st, nid, req.app, req.node)
      [] req.op = "NodeVariableCollectionApi.delete" ->
            NodeVariableCollectionApi_delete(st, nid, req.app, req.node)
      [] req.op = "VariableApi.get" -> VariableApi_get(st, nid, req.app, req.vid)
      [] req.op = "VariableApi.patch" ->
            VariableApi_patch(st, nid, req.app, req.vid, req.name, req.value)
      [] req.op = "VariableApi.delete" -> VariableApi_delete(st, nid, req.app, req.vid)
      [] req.op = "VariableResetApi.put" ->
            VariableResetApi_put(st, nid, req.app, req.vid, choice)
      [] req.op = "ConversationVariableCollectionApi.get" ->
            ConversationVariableCollectionApi_get(st, nid, req.app)
      [] req.op = "SystemVariableCollectionApi.get" ->
            SystemVariableCollectionApi_get(st, nid, req.app)
      [] OTHER -> EnvironmentVariableCollectionApi_get(st, nid, req.app)

\* wrapper of _api_prerequisite: the guards, then the handler body.
Serve(st, nid, req, choice) ==
    LET g == api_prerequisite(req.ctx, req.app) IN
    IF ~g.pass THEN Raise(st, nid, "Forbidden", NoMsg, g.events)
    ELSE LET o == Dispatch(st, nid, req, choice)
         IN [o EXCEPT !.events = g.events \o @]

\* db.session.commit(): what the session holds becomes the stored rows; a
\* request that ends without it leaves the store as it was.
Committed(o, st) == IF Commits(o.events) > 0 THEN o.pending ELSE st

\* The request served and not yet torn down, with its response, its trace
\* and the rows stored when it arrived.
Response(req, o, before) ==
    [req |-> req, status |-> o.status, kind |-> o.kind, body |-> o.body,
     total |-> o.total, msg |-> o.msg, events |-> o.events, before |-> before]

NoRequest ==
    [req |-> Req("none", "", "ok"), status |-> "", kind |-> "empty", body |-> <<>>,
     total |-> <<>>, msg |-> NoMsg, events |-> <<>>, before |-> {}]

Idle == [c \in Clients |-> [pc |-> "idle", app |-> "", names |-> {}, listed |-> <<>>]]

Quiet == last = NoRequest /\ inflight = Idle

\* One request, from routing to the response: the guards, the handler body,
\* and the commit if the body reached one.
Step(req, choice) ==
    LET o == Serve(store, nextId, req, choice) IN
    /\ o.nextId <= MaxRowId + 1
    /\ store' = Committed(o, store)
    /\ nextId' = IF Commits(o.events) > 0 THEN o.nextId ELSE nextId
    /\ last' = Response(req, o, store)
    /\ UNCHANGED <<workflows, inflight>>

\* The arguments of a request are read by the handler body only: a request
\* the guards reject is the same request whatever they are.
Guarded(op, app, ctx, reqs) ==
    IF api_prerequisite(ctx, app).pass
    THEN \E req \in reqs : Step(req, "keep")
    ELSE Step(Req(op, app, ctx), "keep")

\* The callers of the requests: an editor on each app, a caller failing each
\* guard on a1, and a non-editor on a2.
Callers ==
    {<<"a1", "ok">>, <<"a2", "ok">>, <<"a3", "ok">>, <<"a1", "not_setup">>,
     <<"a1", "not_logged_in">>, <<"a1", "not_initialized">>, <<"a1", "not_editor">>,
     <<"a2", "not_editor">>}

Init ==
    /\ store = {}
    /\ nextId = 1
    /\ workflows \in WorkflowConfigs
    /\ last = NoRequest
    /\ inflight = Idle

\* A draft run of a node saves a variable it produced, when none of that
\* (app, node, name) is stored yet.
DraftRun ==
    Quiet /\ \E k \in DraftKeys, v \in ObservedValues :
        /\ nextId <= MaxId
        /\ ~\E r \in store : SameKey(r, k[1], k[2], k[3])
        /\ store' = store \cup {Row(nextId, k[1], k[2], k[3], v, FALSE)}
        /\ nextId' = nextId + 1
        /\ UNCHANGED <<workflows, last, inflight>>

\* The end of the request: the response has gone out.
Teardown ==
    /\ last # NoRequest
    /\ last' = NoRequest
    /\ UNCHANGED <<store, nextId, workflows, inflight>>

GetVariables ==
    Quiet /\ \E c \in Callers : LET op == "WorkflowVariableCollectionApi.get" IN
        Guarded(op, c[1], c[2],
            {[Req(op, c[1], c[2]) EXCEPT !.page = pa.page, !.limit = pa.limit] : pa \in PageArgs})

DeleteVariables ==
    Quiet /\ \E c \in Callers : LET op == "WorkflowVariableCollectionApi.delete" IN
        Guarded(op, c[1], c[2], {Req(op, c[1], c[2])})

GetNodeVariables ==
    Quiet /\ \E c \in Callers : LET op == "NodeVariableCollectionApi.get" IN
        Guarded(op, c[1], c[2], {[Req(op, c[1], c[2]) EXCEPT !.node = n] : n \in NodeIds})

DeleteNodeVariables ==
    Quiet /\ \E c \in Callers : LET op == "NodeVariableCollectionApi.delete" IN
        Guarded(op, c[1], c[2], {[Req(op, c[1], c[2]) EXCEPT !.node = n] : n \in NodeIds})

GetVariable ==
    Quiet /\ \E c \in Callers : LET op == "VariableApi.get" IN
        Guarded(op, c[1], c[2], {[Req(op, c[1], c[2]) EXCEPT !.vid = v] : v \in Ids})

PatchVariable ==
    Quiet /\ \E c \in Callers : LET op == "VariableApi.patch" IN
        Guarded(op, c[1], c[2],
            {[Req(op, c[1], c[2]) EXCEPT !.vid = a[1], !.name = a[2][1], !.value = a[2][2]] :
                a \in Ids \X PatchArgs})

DeleteVariable ==
    Quiet /\ \E c \in Callers : LET op == "VariableApi.delete" IN
        Guarded(op, c[1], c[2], {[Req(op, c[1], c[2]) EXCEPT !.vid = v] : v \in Ids})

ResetVariable ==
    Quiet /\ \E c \in Callers : LET op == "VariableResetApi.put" IN
        IF api_prerequisite(c[2], c[1]).pass
        THEN \E v \in Ids, choice \in {"keep", "remove"} :
                Step([Req(op, c[1], c[2]) EXCEPT !.vid = v], choice)
        ELSE Step(Req(op, c[1], c[2]), "keep")

GetConversationVariables ==
    Quiet /\ \E c \in Callers : LET op == "ConversationVariableCollectionApi.get" IN
        Guarded(op, c[1], c[2], {Req(op, c[1], c[2])})

GetSystemVariables ==
    Quiet /\ \E c \in Callers : LET op == "SystemVariableCollectionApi.get" IN
        Guarded(op, c[1], c[2], {Req(op, c[1], c[2])})

GetEnvironmentVariables ==
    Quiet /\ \E c \in Callers : LET op == "EnvironmentVariableCollectionApi.get" IN
        Guarded(op, c[1], c[2], {Req(op, c[1], c[2])})

Next ==
    \/ DraftRun
    \/ Teardown
    \/ GetVariables
    \/ DeleteVariables
    \/ GetNodeVariables
    \/ DeleteNodeVariables
    \/ GetVariable
    \/ PatchVariable
    \/ DeleteVariable
    \/ ResetVariable
    \/ GetConversationVariables
    \/ GetSystemVariables
    \/ GetEnvironmentVariables

Spec == Init /\ [][Next]_vars

(* ------------------------------------------------------------------ *)
(* Concurrent conversation-variables GETs                              *)
(* ------------------------------------------------------------------ *)

\* Bound: the row ids the concurrent requests may use.
MaxConcId == 3

\* A commit that inserts every default the session holds, whatever has been
\* committed since the existence check.
CommitPrefill_Blind(st, nid, app, names) == InsertDefaults(st, nid, app, names)

\* db.session.commit() after the prefill: the defaults the session holds are
\* inserted, a name that got a row since the existence check being skipped.
CommitPrefill(st, nid, app, names) == InsertIgnoreConflicts(st, nid, app, names)

\* get_draft_workflow, then the prefill in the request's session: the
\* existence check against the committed rows.
ConvGetBegin ==
    /\ last = NoRequest
    /\ \E c \in Clients, app \in {a \in Apps : api_prerequisite("ok", a).pass} :
        /\ inflight[c].pc \in {"idle", "done", "failed"}
        /\ LET draft_workflow == get_draft_workflow(app) IN
           inflight' = [inflight EXCEPT ![c] =
              IF draft_workflow = <<>>
              THEN [pc |-> "failed", app |-> app, names |-> {}, listed |-> <<>>]
              ELSE [pc |-> "prefilled", app |-> app,
                    names |-> MissingDefaults(store, draft_workflow[1], app),
                    listed |-> <<>>]]
    /\ UNCHANGED <<store, nextId, workflows, last>>

ConvGetCommit ==
    \E c \in Clients :
        /\ inflight[c].pc = "prefilled"
        /\ LET ins == CommitPrefill(store, nextId, inflight[c].app, inflight[c].names) IN
            /\ ins.nextId <= MaxConcId + 1
            /\ store' = ins.store
            /\ nextId' = ins.nextId
        /\ inflight' = [inflight EXCEPT ![c].pc = "committed"]
        /\ UNCHANGED <<workflows, last>>

\* The commit meets the unique key (app, node, name) on a row committed since
\* the existence check and is rolled back: the request fails, nothing of it
\* is stored.
ConvGetConflict ==
    \E c \in Clients :
        /\ inflight[c].pc = "prefilled"
        /\ \E n \in inflight[c].names :
              RowsOfKey(store, inflight[c].app, CONVERSATION_VARIABLE_NODE_ID, n) # {}
        /\ inflight' = [inflight EXCEPT ![c].pc = "failed"]
        /\ UNCHANGED <<store, nextId, workflows, last>>

\* _get_variable_list, in a session of its own.
ConvGetList ==
    \E c \in Clients :
        /\ inflight[c].pc = "committed"
        /\ inflight' = [inflight EXCEPT
              ![c].pc = "done",
              ![c].listed = GetVariableList(store, inflight[c].app,
                                            CONVERSATION_VARIABLE_NODE_ID).body]
        /\ UNCHANGED <<store, nextId, workflows, last>>

NextConc ==
    \/ DraftRun
    \/ ConvGetBegin
    \/ ConvGetCommit
    \/ ConvGetConflict
    \/ ConvGetList

SpecConc == Init /\ [][NextConc]_vars

(* ------------------------------------------------------------------ *)
(* Properties                                                          *)
(* ------------------------------------------------------------------ *)

\* The request meets what every guard asks for.
MeetsPrerequisites(req) ==
    req.ctx = "ok" /\ AppMode(req.app) \in {"advanced-chat", "workflow"}

Served(op) == last.req.op = op /\ MeetsPrerequisites(last.req)

CallsOf(events) == {events[i].m : i \in {j \in 1..Len(events) : events[j].e = "call"}}

Opens(events) == Cardinality({i \in 1..Len(events) : events[i].e = "open"})

ReservedNodeIds == {CONVERSATION_VARIABLE_NODE_ID, SYSTEM_VARIABLE_NODE_ID}

\* C1: a node-scoped GET or DELETE whose node_id is the system or the
\* conversation sentinel fails with InvalidArgument: it returns no rows, calls
\* no service method, commits nothing and leaves the store as it was.
C1_ReservedNodeIdRejected ==
    (/\ \/ Served("NodeVariableCollectionApi.get")
        \/ Served("NodeVariableCollectionApi.delete")
     /\ last.req.node \in ReservedNodeIds)
    => /\ last.status = "InvalidArgumentError"
       /\ last.kind = "error"
       /\ last.body = <<>>
       /\ CallsOf(last.events) = {}
       /\ Commits(last.events) = 0
       /\ store = last.before

C1_Witness ==
    /\ Served("NodeVariableCollectionApi.delete")
    /\ last.req.node = CONVERSATION_VARIABLE_NODE_ID
    /\ last.status = "InvalidArgumentError"
    /\ \E r \in store : r.app_id = last.req.app /\ r.node_id = last.req.node

ByIdOps == {"VariableApi.get", "VariableApi.patch", "VariableApi.delete"}

ForeignRows(req, st) == {r \in st : r.id = req.vid /\ r.app_id # req.app}

\* C2: get-by-id, PATCH and delete-by-id on an id whose row is another app's
\* answer a well-formed request with NotFoundError "variable not found, id=..",
\* answer every request exactly as if the row did not exist, and change and
\* commit nothing.
C2_ForeignRowIsNotFound ==
    (/\ last.req.op \in ByIdOps
     /\ MeetsPrerequisites(last.req)
     /\ ForeignRows(last.req, last.before) # {})
    => LET without == last.before \ ForeignRows(last.req, last.before)
           missing == Serve(without, nextId, last.req, "keep")
       IN /\ build_segment(last.req.value).ok
                => /\ last.status = "NotFoundError"
                   /\ last.msg = VariableNotFoundMsg(last.req.vid)
          /\ get_variable(without, last.req.vid) = <<>>
          /\ last.status = missing.status
          /\ last.msg = missing.msg
          /\ last.kind = missing.kind
          /\ last.body = missing.body
          /\ CallsOf(last.events) \subseteq {"get_variable"}
          /\ Commits(last.events) = 0
          /\ store = last.before

C2_Witness ==
    /\ Served("VariableApi.patch")
    /\ last.req.value = "1"
    /\ ForeignRows(last.req, store) # {}
    /\ last.status = "NotFoundError"

OwnRows(req, st) == {r \in st : r.id = req.vid /\ r.app_id = req.app}

\* C3: a PATCH of a variable of the caller's app with name and value both
\* absent or null calls no update_variable, commits nothing, leaves the row and
\* its edited flag as they were, and returns the variable as it is stored.
C3_EmptyPatchIsNoop ==
    (/\ Served("VariableApi.patch")
     /\ last.req.name = <<>>
     /\ last.req.value \in {"absent", "null"}
     /\ OwnRows(last.req, last.before) # {})
    => /\ last.status = "200"
       /\ \E r \in OwnRows(last.req, last.before) : last.body = <<VariableFields(r)>>
       /\ "update_variable" \notin CallsOf(last.events)
       /\ Commits(last.events) = 0
       /\ store = last.before

C3_Witness ==
    /\ Served("VariableApi.patch")
    /\ last.req.name = <<>>
    /\ last.req.value = "null"
    /\ OwnRows(last.req, store) # {}
    /\ last.status = "200"

WritingOps ==
    {"WorkflowVariableCollectionApi.delete", "NodeVariableCollectionApi.delete",
     "VariableApi.delete", "VariableResetApi.put",
     "ConversationVariableCollectionApi.get"}

\* The request asks for a write: one of the writing endpoints, or a PATCH
\* that carries a name or a value.
AsksToWrite(req) ==
    \/ req.op \in WritingOps
    \/ req.op = "VariableApi.patch" /\ ~(req.name = <<>> /\ req.value \in {"absent", "null"})

WritingCalls ==
    {"delete_workflow_variables", "delete_node_variables", "update_variable",
     "delete_variable", "reset_conversation_variable",
     "prefill_conversation_variable_default_values"}

\* C4 as stated: every operation that succeeds has opened one session and
\* committed exactly once, and every failure ends without a commit.
C4_CommitsExactlyOnce ==
    last.req.op # "none"
    => IF last.kind = "error" THEN Commits(last.events) = 0
       ELSE Opens(last.events) = 1 /\ Commits(last.events) = 1

\* C4, amended: an operation commits at most once. The handlers that write
\* (the three deletes, a PATCH carrying a name or a value, reset, the
\* conversation-variables GET) commit exactly once when they succeed, after
\* their last write; the listings, get-by-id and the empty PATCH succeed
\* without a commit; every failure ends without a commit; whatever is not
\* committed leaves the store as it was. A handler opens at most two sessions.
C4_CommitAtMostOnce ==
    last.req.op # "none"
    => /\ Commits(last.events) <= 1
       /\ Opens(last.events) <= 2
       /\ last.kind = "error" => Commits(last.events) = 0
       /\ (last.kind # "error" /\ AsksToWrite(last.req)) => Commits(last.events) = 1
       /\ (last.kind # "error" /\ ~AsksToWrite(last.req)) => Commits(last.events) = 0
       /\ Commits(last.events) = 0 => store = last.before
       /\ last.kind # "error"
            => \A i \in 1..Len(last.events) :
                 (last.events[i].e = "call" /\ last.events[i].m \in WritingCalls)
                 => \E j \in (i + 1)..Len(last.events) : last.events[j].e = "commit"

C4_Witness ==
    /\ Served("VariableApi.delete")
    /\ last.status = "204"
    /\ Commits(last.events) = 1
    /\ store # last.before

GuardTrace == [i \in 1..Len(GuardOrder) |-> EvGuard(GuardOrder[i])]

\* The guard chain in front of every handler: a request whose handler body
\* ran has passed setup, login, account initialization, app mode and the
\* editor check, in this order; a request that fails one of them is answered
\* 403 Forbidden after the guards alone, with no service call, no commit and
\* the store as it was.
GuardChainHolds ==
    /\ last.req.op \in Endpoints \cup {"none"}
    /\ last.req.op # "none"
       => /\ \A i \in 1..Len(last.events) :
                last.events[i].e = "guard" => (i <= Len(GuardOrder) /\ last.events[i] = GuardTrace[i])
          /\ last.status # "Forbidden"
                => /\ MeetsPrerequisites(last.req)
                   /\ Len(last.events) >= Len(GuardOrder)
                   /\ SubSeq(last.events, 1, Len(GuardOrder)) = GuardTrace
          /\ ~MeetsPrerequisites(last.req)
                => /\ last.status = "Forbidden"
                   /\ last.body = <<>>
                   /\ \A i \in 1..Len(last.events) : last.events[i].e = "guard"
                   /\ Commits(last.events) = 0
                   /\ store = last.before

\* C5 as stated: the guard chain holds of every endpoint, and the endpoints
\* are nine method/path pairs.
C5_NineGuardedEndpoints == GuardChainHolds /\ Cardinality(Endpoints) = 9

\* C5, amended: the guard chain holds of every endpoint, and the endpoints are
\* eleven method/path pairs (GET and DELETE of the collection and of a node's
\* variables, GET, PATCH and DELETE of one variable, PUT reset, and the three
\* scope listings).
C5_ElevenGuardedEndpoints == GuardChainHolds /\ Cardinality(Endpoints) = 11

C5_Witness ==
    /\ last.req.op = "EnvironmentVariableCollectionApi.get"
    /\ last.req.ctx = "not_editor"
    /\ last.status = "Forbidden"
    /\ is_workflow_exist(last.req.app)

ConversationRows(req, st) ==
    {r \in OwnRows(req, st) : r.node_id = CONVERSATION_VARIABLE_NODE_ID}

\* C6: for a conversation variable of the caller's app, a PATCH with a value
\* stores the value with edited = TRUE; a reset then either removes the row
\* and answers 204 with no body, or leaves the row with the declared default
\* and edited = FALSE and answers with that row.
C6_EditThenReset ==
    /\ (/\ Served("VariableApi.patch")
        /\ last.status = "200"
        /\ build_segment(last.req.value).value # <<>>
        /\ ConversationRows(last.req, last.before) # {})
       => \E n \in OwnRows(last.req, store) :
            /\ n.edited
            /\ n.value = build_segment(last.req.value).value[1]
            /\ last.body = <<VariableFields(n)>>
    /\ (/\ Served("VariableResetApi.put")
        /\ is_workflow_exist(last.req.app)
        /\ ConversationRows(last.req, last.before) # {})
       => /\ Commits(last.events) = 1
          /\ \E r \in ConversationRows(last.req, last.before) :
               \/ /\ last.status = "204"
                  /\ last.body = <<>>
                  /\ store = last.before \ {r}
               \/ /\ last.status = "200"
                  /\ r.name \in get_draft_workflow(last.req.app)[1].conversation_variables
                  /\ \E n \in OwnRows(last.req, store) :
                        /\ n.value = DeclaredDefault
                        /\ ~n.edited
                        /\ n.name = r.name
                        /\ n.node_id = r.node_id
                        /\ last.body = <<VariableFields(n)>>
                        /\ store = (last.before \ {r}) \cup {n}

\* A reset that kept the row, of a row a PATCH had edited.
C6_Witness ==
    /\ Served("VariableResetApi.put")
    /\ last.status = "200"
    /\ \E r \in ConversationRows(last.req, last.before) : r.edited /\ r.value # DeclaredDefault
    /\ \E n \in OwnRows(last.req, store) : ~n.edited /\ n.value = DeclaredDefault

Declared(app) == get_draft_workflow(app)[1].conversation_variables

\* C7: after a conversation-variables GET the store holds exactly one
\* conversation row for each conversation variable the draft workflow
\* declares, the rows that were there are as they were, and one more GET
\* changes nothing and lists the same; without a draft workflow the GET is
\* NotFound and creates no row.
C7_PrefillIdempotent ==
    Served("ConversationVariableCollectionApi.get")
    => IF ~is_workflow_exist(last.req.app)
       THEN /\ last.status = "NotFoundError"
            /\ CallsOf(last.events) = {}
            /\ store = last.before
       ELSE LET again == Serve(store, nextId, last.req, "keep") IN
            /\ last.status = "200"
            /\ \A n \in Declared(last.req.app) :
                 Cardinality(RowsOfKey(store, last.req.app,
                                       CONVERSATION_VARIABLE_NODE_ID, n)) = 1
            /\ last.before \subseteq store
            /\ \A r \in store \ last.before :
                 /\ r.app_id = last.req.app
                 /\ r.node_id = CONVERSATION_VARIABLE_NODE_ID
                 /\ r.name \in Declared(last.req.app)
                 /\ r.value = DeclaredDefault
                 /\ ~r.edited
            /\ Committed(again, store) = store
            /\ again.nextId = nextId
            /\ again.body = last.body

C7_Witness ==
    /\ Served("ConversationVariableCollectionApi.get")
    /\ last.status = "200"
    /\ store # last.before
    /\ Len(last.body) = Cardinality(Declared(last.req.app))

\* C8: however concurrent conversation-variables GETs interleave, the store
\* never holds two rows of one (app, node, name), and once a GET has committed
\* the store holds exactly one conversation row for each conversation variable
\* its app declares.
C8_ConcurrentPrefillSafe ==
    /\ \A r1 \in store, r2 \in store :
         SameKey(r1, r2.app_id, r2.node_id, r2.name) => r1 = r2
    /\ \A c \in Clients :
         inflight[c].pc \in {"committed", "done"}
         => \A n \in Declared(inflight[c].app) :
              Cardinality(RowsOfKey(store, inflight[c].app,
                                    CONVERSATION_VARIABLE_NODE_ID, n)) = 1

\* Two GETs of one app that both found the same default missing, both
\* committed.
C8_Witness ==
    \E c1 \in Clients, c2 \in Clients :
        /\ c1 # c2
        /\ inflight[c1].app = inflight[c2].app
        /\ inflight[c1].pc \in {"committed", "done"}
        /\ inflight[c2].pc \in {"committed", "done"}
        /\ inflight[c1].names \cap inflight[c2].names # {}

\* C9: a reset looks for the draft workflow, then for the variable among the
\* app's own, then at its scope: without a draft workflow it is NotFound
\* before any lookup, a missing or foreign variable is NotFound, and a
\* variable of the app that is not a conversation variable is InvalidArgument
\* with no reset_conversation_variable call, no commit and the row unchanged.
C9_ResetRejectsOtherScopes ==
    Served("VariableResetApi.put")
    => /\ ~is_workflow_exist(last.req.app)
            => /\ last.status = "NotFoundError"
               /\ last.msg.text = "Draft workflow not found, app_id="
               /\ CallsOf(last.events) = {}
               /\ store = last.before
       /\ (is_workflow_exist(last.req.app) /\ OwnRows(last.req, last.before) = {})
            => /\ last.status = "NotFoundError"
               /\ last.msg = VariableNotFoundMsg(last.req.vid)
               /\ store = last.before
       /\ (/\ is_workflow_exist(last.req.app)
           /\ OwnRows(last.req, last.before) # {}
           /\ ConversationRows(last.req, last.before) = {})
            => /\ last.status = "InvalidArgumentError"
               /\ "reset_conversation_variable" \notin CallsOf(last.events)
               /\ Commits(last.events) = 0
               /\ store = last.before

C9_Witness ==
    /\ Served("VariableResetApi.put")
    /\ last.status = "InvalidArgumentError"
    /\ \E r \in OwnRows(last.req, store) : r.node_id = SYSTEM_VARIABLE_NODE_ID

\* The session s is open when the i-th event happens.
SessionOpenAt(events, i, s) ==
    Cardinality({j \in 1..(i - 1) : events[j] = EvOpen(s)})
        > Cardinality({j \in 1..(i - 1) : events[j] = EvClose(s)})

\* C10: every call on a WorkflowDraftVariableService is made while the
\* session the service was built with is open, and a `with Session(...)`
\* block a handler opens is closed when the handler returns.
C10_CallsInsideOpenSession ==
    /\ \A i \in 1..Len(last.events) :
         last.events[i].e = "call" => SessionOpenAt(last.events, i, last.events[i].s)
    /\ ~SessionOpenAt(last.events, Len(last.events) + 1, "local")

====
